---- MODULE Spec2Model ----
(***************************************************************************)
(* A model of src/context/FinancialProvider.tsx: the React provider that   *)
(* owns the financial state (useReducer), auto-loads the plan on mount,    *)
(* auto-saves it with a 1000ms debounce and exposes the entity operations. *)
(*                                                                         *)
(* state     the reducer's committed state (dispatches are applied in      *)
(*           issuance order, so the queue is folded eagerly)               *)
(* rendered  the part of the state the closures of the last render hold    *)
(*           (state.userPlan and the auto-save effect's dependencies)      *)
(* planTouched  state.userPlan is a new object since the last render       *)
(* mounted   the effects of the first commit have run                      *)
(* timers    the pending setTimeout(saveData, 1000) callbacks, each with   *)
(*           the plan its closure holds                                    *)
(* tasks     async functions suspended at an await                         *)
(* stored    the plan the storage module holds                             *)
(* now       the last value read from the clock (milliseconds)             *)
(* nOps      the number of calls the user has made                         *)
(* last      the step just taken (observation only)                        *)
(* hist      counts of storage calls, how the mount went, whether a save   *)
(*           has succeeded and whether resetAll was the last change asked  *)
(*                                                                         *)
(* reducer.ts, actions.ts, initialState.ts and storage.ts are imported by  *)
(* the provider; their definitions below follow the specification.         *)
(* Timestamps are the instants toISOString() prints: the strings are of    *)
(* fixed width, so they compare as the instants do.                        *)
(***************************************************************************)
EXTENDS Integers, Sequences, FiniteSets, TLC

VARIABLES state, rendered, planTouched, mounted, timers, tasks, stored, now,
          nOps, last, hist

vars == <<state, rendered, planTouched, mounted, timers, tasks, stored, now,
          nOps, last, hist>>

\* ---------------------------------------------------------------- bounds
MaxOps == 2
MaxClock == 1

\* ------------------------------------------------------------- constants
SentinelId == "default-plan"
None == "none"
Domains == {"income", "expenses", "goals"}
RandomValues == {"r1", "r2"}
Amounts == {1, 2}
Sources == {"job", "gift"}
NonexistentId == <<"nonexistent", 0, "r1">>
StorageFailure == "storage failure"

Prefix(d) ==
  CASE d = "income" -> "income" [] d = "expenses" -> "expense" [] d = "goals" -> "goal"

LoadingKey(d) ==
  CASE d = "income" -> "isLoadingIncome"
    [] d = "expenses" -> "isLoadingExpenses"
    [] d = "goals" -> "isLoadingGoals"

ErrorKey(d) ==
  CASE d = "income" -> "incomeError"
    [] d = "expenses" -> "expenseError"
    [] d = "goals" -> "goalError"

NotFoundMessage(d) ==
  CASE d = "income" -> "Income not found"
    [] d = "expenses" -> "Expense not found"
    [] d = "goals" -> "Goal not found"

\* ------------------------------------------------------ sequence helpers
Ids(seq) == {seq[i].id : i \in 1..Len(seq)}

\* Array.prototype.find: the first element with the id, or None.
Find(seq, id) ==
  IF \E i \in 1..Len(seq) : seq[i].id = id
  THEN seq[CHOOSE i \in 1..Len(seq) :
             seq[i].id = id /\ \A j \in 1..(i - 1) : seq[j].id # id]
  ELSE None

RECURSIVE SelectSeqBy(_, _)
SelectSeqBy(seq, id) ==
  IF seq = <<>> THEN <<>>
  ELSE IF Head(seq).id = id THEN SelectSeqBy(Tail(seq), id)
       ELSE <<Head(seq)>> \o SelectSeqBy(Tail(seq), id)

\* ------------------------------------------------ state (initialState.ts)
FreshPlan ==
  [id |-> SentinelId, income |-> <<>>, expenses |-> <<>>, goals |-> <<>>,
   currentBalance |-> 0, forecastConfig |-> 0]

NoLoading ==
  [isLoading |-> FALSE, isSaving |-> FALSE, isLoadingIncome |-> FALSE,
   isLoadingExpenses |-> FALSE, isLoadingGoals |-> FALSE,
   isLoadingForecast |-> FALSE]

NoError ==
  [incomeError |-> None, expenseError |-> None, goalError |-> None,
   forecastError |-> None, generalError |-> None]

createFreshInitialState ==
  [userPlan |-> FreshPlan, loading |-> NoLoading, error |-> NoError,
   hasUnsavedChanges |-> FALSE]

SeedIncome ==
  [id |-> <<"income", 0, "r1">>, amount |-> 1, source |-> "job",
   createdAt |-> 0, updatedAt |-> 0]

SavedPlan == [FreshPlan EXCEPT !.id = "plan-1", !.income = <<SeedIncome>>]

mergeWithInitialState(initialState) ==
  [createFreshInitialState EXCEPT !.userPlan = initialState]

\* The absent plan (storage's null).
NoPlan == [FreshPlan EXCEPT !.id = "no-plan"]

IsPristine(plan) ==
  /\ plan.id = SentinelId
  /\ Len(plan.income) = 0
  /\ Len(plan.expenses) = 0
  /\ Len(plan.goals) = 0

\* ----------------------------------------------------- reducer (reducer.ts)
MapUpdate(seq, e) == [i \in 1..Len(seq) |-> IF seq[i].id = e.id THEN e ELSE seq[i]]

enhancedFinancialReducer(s, a) ==
  CASE a.type = "setLoading" -> [s EXCEPT !.loading.isLoading = a.value]
    [] a.type = "setSaving" -> [s EXCEPT !.loading.isSaving = a.value]
    [] a.type = "setLoadingDomain" -> [s EXCEPT !.loading[a.key] = a.value]
    [] a.type = "clearError" ->
         IF a.key = "all" THEN [s EXCEPT !.error = NoError]
         ELSE [s EXCEPT !.error[a.key] = None]
    [] a.type = "setError" -> [s EXCEPT !.error[a.key] = a.message]
    [] a.type = "add" ->
         [s EXCEPT !.userPlan[a.domain] = Append(@, a.entity),
                   !.hasUnsavedChanges = TRUE]
    [] a.type = "update" ->
         [s EXCEPT !.userPlan[a.domain] = MapUpdate(@, a.entity),
                   !.hasUnsavedChanges = TRUE]
    [] a.type = "delete" ->
         [s EXCEPT !.userPlan[a.domain] = SelectSeqBy(@, a.id),
                   !.hasUnsavedChanges = TRUE]
    [] a.type = "updateCurrentBalance" ->
         [s EXCEPT !.userPlan.currentBalance = a.value,
                   !.hasUnsavedChanges = TRUE]
    [] a.type = "updateForecastConfig" ->
         [s EXCEPT !.userPlan.forecastConfig = a.value,
                   !.hasUnsavedChanges = TRUE]
    [] a.type = "setUserPlan" ->
         [s EXCEPT !.userPlan = a.plan, !.hasUnsavedChanges = TRUE]
    [] a.type = "loadSuccess" ->
         [s EXCEPT !.userPlan = a.plan, !.loading.isLoading = FALSE,
                   !.error.generalError = None, !.hasUnsavedChanges = FALSE]
    [] a.type = "loadError" ->
         [s EXCEPT !.error.generalError = a.message,
                   !.loading.isLoading = FALSE]
    [] a.type = "saveSuccess" ->
         [s EXCEPT !.loading.isSaving = FALSE, !.hasUnsavedChanges = FALSE]
    [] a.type = "saveError" -> [s EXCEPT !.error.generalError = a.message]
    [] a.type = "resetState" -> createFreshInitialState

\* Whether the action gives state.userPlan a new object identity.
TouchesPlan(a) ==
  a.type \in {"add", "update", "delete", "updateCurrentBalance",
              "updateForecastConfig", "setUserPlan", "loadSuccess", "resetState"}

RECURSIVE Dispatch(_, _)
Dispatch(s, acts) ==
  IF acts = <<>> THEN s
  ELSE Dispatch(enhancedFinancialReducer(s, Head(acts)), Tail(acts))

AnyTouches(acts) == \E i \in 1..Len(acts) : TouchesPlan(acts[i])

\* ------------------------------------------------- action builders (actions.ts)
setLoading(v) == [type |-> "setLoading", value |-> v]
setSaving(v) == [type |-> "setSaving", value |-> v]
setLoadingDomain(d, v) == [type |-> "setLoadingDomain", key |-> LoadingKey(d), value |-> v]
setLoadingForecast(v) == [type |-> "setLoadingDomain", key |-> "isLoadingForecast", value |-> v]
clearErrorAction(k) == [type |-> "clearError", key |-> k]
setDomainError(d, m) == [type |-> "setError", key |-> ErrorKey(d), message |-> m]
addEntity(d, e) == [type |-> "add", domain |-> d, entity |-> e]
updateEntity(d, e) == [type |-> "update", domain |-> d, entity |-> e]
deleteEntity(d, id) == [type |-> "delete", domain |-> d, id |-> id]
setUserPlan(p) == [type |-> "setUserPlan", plan |-> p]
loadSuccess(p) == [type |-> "loadSuccess", plan |-> p]
loadError(m) == [type |-> "loadError", message |-> m]
saveSuccess == [type |-> "saveSuccess"]
saveError(m) == [type |-> "saveError", message |-> m]
resetState == [type |-> "resetState"]

\* ------------------------------------------------------ storage (storage.ts)
\* save(plan): persists the plan, assigning an identifier on the first save.
StorageSave(plan) == [plan EXCEPT !.id = IF @ = SentinelId THEN "plan-1" ELSE @]

\* ------------------------------------------------- entity operations (code)
\* generateId: `${prefix}-${Date.now()}-${Math.random()...}`
generateId(prefix, t, r) == <<prefix, t, r>>

\* The entity built by addIncome/addExpense/addGoal; tId, tCreated and
\* tUpdated are the three successive clock reads.
NewEntity(d, input, tId, r, tCreated, tUpdated) ==
  [id |-> generateId(Prefix(d), tId, r), amount |-> input.amount,
   source |-> input.source, createdAt |-> tCreated, updatedAt |-> tUpdated]

OpPrologue(d) == <<setLoadingDomain(d, TRUE), clearErrorAction(ErrorKey(d))>>
OpCatch(d, message) == <<setDomainError(d, message)>>
\* Faulty variant: no finally block.
OpFinallyMissing(d) == <<>>

OpFinally(d) == <<setLoadingDomain(d, FALSE)>>

AddActions(d, e) == OpPrologue(d) \o <<addEntity(d, e)>> \o OpFinally(d)

\* state.userPlan.<domain>.find(...) in the closure of the render the
\* callback was created in.
ExistsInClosure(closureSeq, input) == input.id \in Ids(closureSeq)

\* { ...existing, ...input, updatedAt: new Date().toISOString() }
MergeEntity(existing, input, t) == ([updatedAt |-> t] @@ input) @@ existing

UpdateActions(d, closureSeq, input, t) ==
  IF ExistsInClosure(closureSeq, input)
  THEN OpPrologue(d)
         \o <<updateEntity(d, MergeEntity(Find(closureSeq, input.id), input, t))>>
         \o OpFinally(d)
  ELSE OpPrologue(d) \o OpCatch(d, NotFoundMessage(d)) \o OpFinally(d)

UpdateOutcome(closureSeq, input) ==
  IF ExistsInClosure(closureSeq, input) THEN "resolved" ELSE "rejected"

\* Faulty variant: the removal is not dispatched.
DeleteActionsNoRemoval(d, id) == OpPrologue(d) \o OpFinally(d)

\* deleteIncome / deleteExpense / deleteGoal: no existence check.
DeleteActions(d, id) == OpPrologue(d) \o <<deleteEntity(d, id)>> \o OpFinally(d)

\* ------------------------------------------------------- lifecycle effects
\* What the closures and effects of one render read of the state.
Snapshot(s) ==
  [userPlan |-> s.userPlan, hasUnsavedChanges |-> s.hasUnsavedChanges,
   isLoading |-> s.loading.isLoading, isSaving |-> s.loading.isSaving]

\* Faulty variant: the effect re-runs whenever the plan changes.
AutoLoadEffectRunsOnChange(isMount, planChanged) == isMount \/ planChanged

\* Auto-load effect: dependency array [] - it runs on mount only.
AutoLoadEffectRuns(isMount, planChanged) == isMount

AutoLoadCondition(r) == IsPristine(r.userPlan)

AutoLoadPrologue == <<setLoading(TRUE), clearErrorAction("generalError")>>

\* Auto-save effect: hasRealData and the eligibility test.
hasRealData(r) ==
  \/ r.userPlan.id # SentinelId
  \/ Len(r.userPlan.income) > 0
  \/ Len(r.userPlan.expenses) > 0
  \/ Len(r.userPlan.goals) > 0

AutoSaveEligible(r) ==
  /\ hasRealData(r)
  /\ ~r.isLoading
  /\ ~r.isSaving
  /\ r.hasUnsavedChanges

\* Dependency array of the auto-save effect.
AutoSaveDepsChanged(old, new, touched) ==
  \/ touched
  \/ old.hasUnsavedChanges # new.hasUnsavedChanges
  \/ old.isLoading # new.isLoading
  \/ old.isSaving # new.isSaving

\* Faulty variant: the effect returns no cleanup: superseded timers stay armed.
EffectCleanupKeeps(ts) == ts

\* The effect's cleanup: clearTimeout(timeoutId).
EffectCleanup(ts) == <<>>

\* One run of the auto-save effect body for the render r.
AutoSaveEffect(ts, r) ==
  IF AutoSaveEligible(r) THEN Append(ts, [plan |-> r.userPlan]) ELSE ts

\* An async function suspended at an await: saveData first awaits the
\* import (it reads nothing after it but its closure, yet the state moves on
\* meanwhile); the other functions have read what they use before they suspend.
NewTask(kind, plan, acts) ==
  [kind |-> kind, stage |-> IF kind = "autoSave" THEN "import" ELSE "storage",
   plan |-> plan, acts |-> acts]

\* last: the step just taken - what ran, for which entity kind and input, how
\* it ended for its caller, and the actions it dispatched.
NoInput == [id |-> <<"none", 0, "r1">>]

Event(op, kind, d, outcome, acts, input) ==
  [op |-> op, kind |-> kind, domain |-> d, outcome |-> outcome, acts |-> acts,
   input |-> input]

Idle == Event("none", None, None, None, <<>>, NoInput)

InitialPlans == {FreshPlan, SavedPlan}
InitialStored == {NoPlan, SavedPlan}

Init ==
  /\ \E p \in InitialPlans :
       state = IF p = FreshPlan THEN createFreshInitialState
               ELSE mergeWithInitialState(p)
  /\ rendered = Snapshot(state)
  /\ planTouched = FALSE
  /\ mounted = FALSE
  /\ timers = <<>>
  /\ tasks = <<>>
  /\ stored \in InitialStored
  /\ now = 0
  /\ nOps = 0
  /\ last = Idle
  /\ hist = [saveCalls |-> 0, autoLoadCalls |-> 0, mountPristine |-> FALSE,
             autoLoad |-> "none", saved |-> FALSE, reset |-> FALSE, added |-> {}]

\* The effects of the first commit.
Mount ==
  /\ ~mounted
  /\ mounted' = TRUE
  /\ LET load == AutoLoadEffectRuns(TRUE, FALSE) /\ AutoLoadCondition(rendered)
     IN /\ state' = IF load THEN Dispatch(state, AutoLoadPrologue) ELSE state
        /\ tasks' = IF load
                    THEN Append(tasks, NewTask("autoLoad", NoPlan, AutoLoadPrologue))
                    ELSE tasks
        /\ hist' = [hist EXCEPT !.mountPristine = IsPristine(rendered.userPlan),
                                !.autoLoadCalls = IF load THEN @ + 1 ELSE @,
                                !.autoLoad = IF load THEN "pending" ELSE @]
  /\ timers' = AutoSaveEffect(timers, rendered)
  /\ last' = [Idle EXCEPT !.op = "mount"]
  /\ UNCHANGED <<rendered, planTouched, stored, now, nOps>>

\* A render is scheduled when what the provider's closures read has changed.
\* React commits it before the event loop runs a later timer or promise
\* continuation; only calls made from one handler share a render.
RenderPending == AutoSaveDepsChanged(rendered, Snapshot(state), planTouched)

\* A re-render commits the reducer's state: new closures, and the effects
\* whose dependencies changed run again (cleanup first).
Render ==
  /\ mounted
  /\ RenderPending
  /\ LET r == Snapshot(state)
         load == AutoLoadEffectRuns(FALSE, planTouched) /\ AutoLoadCondition(r)
     IN /\ rendered' = r
        /\ timers' = AutoSaveEffect(EffectCleanup(timers), r)
        /\ state' = IF load THEN Dispatch(state, AutoLoadPrologue) ELSE state
        /\ tasks' = IF load
                    THEN Append(tasks, NewTask("autoLoad", NoPlan, AutoLoadPrologue))
                    ELSE tasks
        /\ hist' = [hist EXCEPT !.autoLoadCalls = IF load THEN @ + 1 ELSE @,
                                !.autoLoad = IF load THEN "pending" ELSE @]
  /\ planTouched' = FALSE
  /\ last' = [Idle EXCEPT !.op = "render"]
  /\ UNCHANGED <<mounted, stored, now, nOps>>

\* ------------------------------------------------------- user operations
CanCall == mounted /\ nOps < MaxOps

\* hist.reset: resetAll was called and neither a mutation nor loadUserPlan since.
\* hist.added: the entities (kind and id) that adds have created, less those a
\* delete of their id, a resetAll or a loadUserPlan has been called on since.
\* hist.saved: a storage save has resolved.
Called(op, d, id) ==
  hist' = [hist EXCEPT !.reset = (op = "resetAll"),
                       !.added = CASE op = "add" -> @ \cup {<<d, id>>}
                                   [] op = "delete" -> @ \ {<<d, id>>}
                                   [] op \in {"resetAll", "loadUserPlan"} -> {}
                                   [] OTHER -> @]

\* A synchronous operation: every dispatch is applied, in order.
Run(op, d, outcome, acts, input) ==
  /\ state' = Dispatch(state, acts)
  /\ planTouched' = (planTouched \/ AnyTouches(acts))
  /\ last' = Event(op, None, d, outcome, acts, input)
  /\ nOps' = nOps + 1

AddInputs == {[amount |-> 1, source |-> "job"]}

\* T is the latest value a clock read of the call may return.
AddOp(d, T) ==
  /\ CanCall
  /\ \E input \in AddInputs, r \in RandomValues, tId \in now..T :
       \E tCreated \in tId..T :
         \E tUpdated \in tCreated..T :
           /\ Run("add", d, "resolved",
                  AddActions(d, NewEntity(d, input, tId, r, tCreated, tUpdated)),
                  NoInput)
           /\ now' = tUpdated
           /\ Called("add", d, generateId(Prefix(d), tId, r))
  /\ UNCHANGED <<rendered, mounted, timers, tasks, stored>>

KnownIds(d) == Ids(state.userPlan[d]) \cup Ids(rendered.userPlan[d]) \cup {NonexistentId}

UpdateInputs(d) ==
  {[id |-> i, amount |-> 2] : i \in KnownIds(d)}
    \cup {[id |-> i, source |-> "gift"] : i \in KnownIds(d) \ {NonexistentId}}

UpdateOp(d, T) ==
  /\ CanCall
  /\ \E input \in UpdateInputs(d), t \in now..T :
       /\ Run("update", d, UpdateOutcome(rendered.userPlan[d], input),
              UpdateActions(d, rendered.userPlan[d], input, t), input)
       /\ now' = t
  /\ Called("update", d, NonexistentId)
  /\ UNCHANGED <<rendered, mounted, timers, tasks, stored>>

DeleteOp(d) ==
  /\ CanCall
  /\ \E id \in KnownIds(d) :
       /\ Run("delete", d, "resolved", DeleteActions(d, id), [id |-> id])
       /\ Called("delete", d, id)
  /\ UNCHANGED <<rendered, mounted, timers, tasks, stored, now>>

\* updateCurrentBalance(balance)
UpdateCurrentBalanceActions(balance) ==
  <<setSaving(TRUE), clearErrorAction("generalError"),
    [type |-> "updateCurrentBalance", value |-> balance], setSaving(FALSE)>>

UpdateCurrentBalanceOp ==
  /\ CanCall
  /\ \E balance \in {1} :
       Run("updateCurrentBalance", None, "resolved", UpdateCurrentBalanceActions(balance),
           NoInput)
  /\ Called("update", None, NonexistentId)
  /\ UNCHANGED <<rendered, mounted, timers, tasks, stored, now>>

\* updateForecastConfig(config)
UpdateForecastConfigActions(config) ==
  <<setLoadingForecast(TRUE), clearErrorAction("forecastError"),
    [type |-> "updateForecastConfig", value |-> config], setLoadingForecast(FALSE)>>

UpdateForecastConfigOp ==
  /\ CanCall
  /\ \E config \in {1} :
       Run("updateForecastConfig", None, "resolved", UpdateForecastConfigActions(config),
           NoInput)
  /\ Called("update", None, NonexistentId)
  /\ UNCHANGED <<rendered, mounted, timers, tasks, stored, now>>

\* resetAll()
ResetAllOp ==
  /\ CanCall
  /\ Run("resetAll", None, "resolved", <<resetState>>, NoInput)
  /\ Called("resetAll", None, NonexistentId)
  /\ UNCHANGED <<rendered, mounted, timers, tasks, stored, now>>

\* saveUserPlan(): the part before the first await. The plan saved is
\* state.userPlan of the render the callback belongs to, so the storage call
\* that follows the import is fixed here and counted here.
SaveUserPlanPrologue == <<setSaving(TRUE), clearErrorAction("generalError")>>

SaveUserPlanOp ==
  /\ CanCall
  /\ Run("saveUserPlan", None, "pending", SaveUserPlanPrologue, NoInput)
  /\ tasks' = Append(tasks, NewTask("manualSave", rendered.userPlan, SaveUserPlanPrologue))
  /\ hist' = [hist EXCEPT !.saveCalls = @ + 1]
  /\ UNCHANGED <<rendered, mounted, timers, stored, now>>

\* loadUserPlan(): the part before the first await.
LoadUserPlanPrologue == <<setLoading(TRUE), clearErrorAction("generalError")>>

LoadUserPlanOp ==
  /\ CanCall
  /\ Run("loadUserPlan", None, "pending", LoadUserPlanPrologue, NoInput)
  /\ tasks' = Append(tasks, NewTask("manualLoad", NoPlan, LoadUserPlanPrologue))
  /\ Called("loadUserPlan", None, NonexistentId)
  /\ UNCHANGED <<rendered, mounted, timers, stored, now>>

\* ------------------------------------------------------------ async steps
RemoveAt(seq, i) == SubSeq(seq, 1, i - 1) \o SubSeq(seq, i + 1, Len(seq))

IsSave(t) == t.kind \in {"autoSave", "manualSave"}
IsLoad(t) == t.kind \in {"autoLoad", "manualLoad"}

\* The debounce timer fires: saveData starts and suspends at
\* await import("./storage").
TimerFire ==
  /\ ~RenderPending
  /\ timers # <<>>
  /\ \E i \in 1..Len(timers) :
       /\ tasks' = Append(tasks, NewTask("autoSave", timers[i].plan, <<>>))
       /\ timers' = RemoveAt(timers, i)
  /\ last' = [Idle EXCEPT !.op = "timerFire", !.kind = "autoSave"]
  /\ UNCHANGED <<state, rendered, planTouched, mounted, stored, now, nOps, hist>>

\* saveData's import resolves and saveToStorage(state.userPlan) is called.
StorageCall ==
  /\ ~RenderPending
  /\ \E i \in 1..Len(tasks) :
       /\ tasks[i].stage = "import"
       /\ tasks' = [tasks EXCEPT ![i].stage = "storage"]
       /\ last' = [Idle EXCEPT !.op = "storageCall", !.kind = tasks[i].kind]
       /\ hist' = [hist EXCEPT !.saveCalls = @ + 1]
  /\ UNCHANGED <<state, rendered, planTouched, mounted, timers, stored, now, nOps>>

\* The continuation of an async function: its dispatches, and the task ends.
\* op tells what the storage call did, outcome what the caller gets.
Complete(i, op, outcome, acts) ==
  /\ state' = Dispatch(state, acts)
  /\ planTouched' = (planTouched \/ AnyTouches(acts))
  /\ tasks' = RemoveAt(tasks, i)
  /\ last' = Event(op, tasks[i].kind, None, outcome, tasks[i].acts \o acts, NoInput)

\* Faulty variant: the save is not marked successful.
SaveSuccessActionsNoMark(savedPlan, closurePlan) ==
  IF savedPlan.id # closurePlan.id THEN <<setUserPlan(savedPlan)>> ELSE <<>>

\* saveData / saveUserPlan after await saveToStorage(state.userPlan).
SaveSuccessActions(savedPlan, closurePlan) ==
  (IF savedPlan.id # closurePlan.id THEN <<setUserPlan(savedPlan)>> ELSE <<>>)
    \o <<saveSuccess>>

SaveResolve ==
  /\ ~RenderPending
  /\ \E i \in 1..Len(tasks) :
       /\ IsSave(tasks[i])
       /\ tasks[i].stage = "storage"
       /\ Complete(i, "saveResolved", "resolved",
                   SaveSuccessActions(StorageSave(tasks[i].plan), tasks[i].plan))
       /\ stored' = StorageSave(tasks[i].plan)
  /\ hist' = [hist EXCEPT !.saved = TRUE]
  /\ UNCHANGED <<rendered, mounted, timers, now, nOps>>

\* Faulty variant: the failure of an auto-save is recorded in the state.
AutoSaveCatchRecords(message) == <<saveError(message)>>

\* catch of saveData: console.error only.
AutoSaveCatch(message) == <<>>

\* Faulty variant: the failure is not recorded.
SaveUserPlanCatchSilent(message) == <<>>

\* catch of saveUserPlan: saveError, then throw.
SaveUserPlanCatch(message) == <<saveError(message)>>

SaveReject ==
  /\ ~RenderPending
  /\ \E i \in 1..Len(tasks) :
       /\ IsSave(tasks[i])
       /\ tasks[i].stage = "storage"
       /\ IF tasks[i].kind = "autoSave"
          THEN Complete(i, "saveRejected", "swallowed", AutoSaveCatch(StorageFailure))
          ELSE Complete(i, "saveRejected", "rejected", SaveUserPlanCatch(StorageFailure))
  /\ UNCHANGED <<rendered, mounted, timers, stored, now, nOps, hist>>

\* Faulty variant: an absent plan leaves the loading flag set.
LoadSuccessActionsKeepsLoading(loadedPlan) ==
  IF loadedPlan # NoPlan THEN <<loadSuccess(loadedPlan)>> ELSE <<>>

\* loadData / loadUserPlan after await loadFromStorage().
LoadSuccessActions(loadedPlan) ==
  IF loadedPlan # NoPlan THEN <<loadSuccess(loadedPlan)>> ELSE <<setLoading(FALSE)>>

LoadResolve ==
  /\ ~RenderPending
  /\ \E i \in 1..Len(tasks) :
       /\ IsLoad(tasks[i])
       /\ tasks[i].stage = "storage"
       /\ Complete(i, "loadResolved", "resolved", LoadSuccessActions(stored))
       /\ hist' = [hist EXCEPT !.autoLoad =
                     IF tasks[i].kind # "autoLoad" THEN @
                     ELSE IF stored # NoPlan THEN "plan" ELSE "absent"]
  /\ UNCHANGED <<rendered, mounted, timers, stored, now, nOps>>

\* Faulty variant: a failed load is not recorded.
LoadCatchSilent(message) == <<>>

\* catch of loadData (no throw) and of loadUserPlan (throws).
LoadCatch(message) == <<loadError(message)>>

LoadReject ==
  /\ ~RenderPending
  /\ \E i \in 1..Len(tasks) :
       /\ IsLoad(tasks[i])
       /\ tasks[i].stage = "storage"
       /\ Complete(i, "loadRejected",
                   IF tasks[i].kind = "autoLoad" THEN "swallowed" ELSE "rejected",
                   LoadCatch(StorageFailure))
       /\ hist' = [hist EXCEPT !.autoLoad =
                     IF tasks[i].kind = "autoLoad" THEN "failed" ELSE @]
  /\ UNCHANGED <<rendered, mounted, timers, stored, now, nOps>>

Lifecycle ==
  \/ UpdateCurrentBalanceOp
  \/ UpdateForecastConfigOp
  \/ ResetAllOp
  \/ SaveUserPlanOp
  \/ LoadUserPlanOp
  \/ TimerFire
  \/ StorageCall
  \/ SaveResolve
  \/ SaveReject
  \/ LoadResolve
  \/ LoadReject

\* The provider with its persistence: effects, timers and storage calls.
\* Nothing here reads an entity's timestamps, so the calls read one clock
\* value; SpecOps lets the clock advance between any two reads.
Next ==
  \/ Mount
  \/ Render
  \/ \E d \in Domains : AddOp(d, now)
  \/ \E d \in Domains : UpdateOp(d, now)
  \/ \E d \in Domains : DeleteOp(d)
  \/ Lifecycle

Spec == Init /\ [][Next]_vars

\* Spec with what the runtime guarantees: the first commit happens, a
\* scheduled render is committed, an armed timer that is not cleared fires,
\* a dynamic import resolves and a storage promise settles (either way).
\* Nothing obliges the user to call anything.
SpecLive ==
  /\ Init /\ [][Next]_vars
  /\ WF_vars(Mount)
  /\ WF_vars(Render)
  /\ WF_vars(TimerFire)
  /\ WF_vars(StorageCall)
  /\ WF_vars(SaveResolve \/ SaveReject)
  /\ WF_vars(LoadResolve \/ LoadReject)

\* The entity operations of all three kinds, between renders.
NextOps ==
  \/ Mount
  \/ Render
  \/ \E d \in Domains : AddOp(d, MaxClock)
  \/ \E d \in Domains : UpdateOp(d, MaxClock)
  \/ \E d \in Domains : DeleteOp(d)

SpecOps == Init /\ [][NextOps]_vars

\* ====================================================================
\* Properties
\* ====================================================================
UserStep(op) == nOps' = nOps + 1 /\ last'.op = op
RenderStep == last'.op = "render" /\ last.op # "render"
HasType(acts, type) == \E i \in 1..Len(acts) : acts[i].type = type
MutationOps == {"add", "update", "delete", "updateCurrentBalance", "updateForecastConfig"}
EntityOps == {"add", "update", "delete"}

\* --- C1 ---------------------------------------------------------------
AutoSaveCallStep == hist'.saveCalls = hist.saveCalls + 1 /\ last'.op = "storageCall"

\* C1: at the moment the auto-save calls the storage save, isLoading and
\* isSaving are false and the plan in state is not pristine.
C1_AutoSaveCallOnlyWhenEligible ==
  [][AutoSaveCallStep =>
       /\ ~state.loading.isLoading
       /\ ~state.loading.isSaving
       /\ ~IsPristine(state.userPlan)]_vars

\* --- C2 ---------------------------------------------------------------
\* The render that commits one or more mutations.
RenderOfMutation == RenderStep /\ planTouched /\ state.hasUnsavedChanges

OneTimerWithLatestPlan == Len(timers') = 1 /\ timers'[1].plan = state.userPlan

TimerFireStep == last'.op = "timerFire" /\ Len(tasks') = Len(tasks) + 1

MutationStep ==
  /\ nOps' = nOps + 1
  /\ last'.op \in MutationOps
  /\ last'.outcome = "resolved"

SaveSuccessStep == last'.op = "saveResolved" /\ Len(tasks') = Len(tasks) - 1

\* C3: after a successful mutation hasUnsavedChanges is true; after a
\* successful save (manual or auto) it is false.
C3_UnsavedFlag ==
  [][/\ MutationStep => state'.hasUnsavedChanges
     /\ SaveSuccessStep => ~state'.hasUnsavedChanges]_vars

\* An auto-save of a mutated plan has just succeeded.
C3_Witness ==
  /\ last.op = "saveResolved"
  /\ last.kind = "autoSave"
  /\ ~state.hasUnsavedChanges
  /\ nOps >= 1

\* --- C4 ---------------------------------------------------------------
\* C4: an update whose id is not in the plan's sequence rejects, dispatches
\* no update action and leaves the plan unchanged.
C4_UpdateMissingRejects ==
  [][\A d \in Domains :
       (/\ UserStep("update")
        /\ last'.domain = d
        /\ last'.input.id \notin Ids(state.userPlan[d]))
       => /\ last'.outcome = "rejected"
          /\ ~HasType(last'.acts, "update")
          /\ state'.userPlan = state.userPlan]_vars

\* --- C5 ---------------------------------------------------------------
\* C5: an update whose id is in the plan's sequence resolves, and the stored
\* entity is the one that was in the plan with the supplied fields and
\* updatedAt changed, updatedAt not smaller than before.
C5_UpdatePreservesFields ==
  [][\A d \in Domains :
       (/\ UserStep("update")
        /\ last'.domain = d
        /\ last'.input.id \in Ids(state.userPlan[d]))
       => /\ last'.outcome = "resolved"
          /\ last'.input.id \in Ids(state'.userPlan[d])
          /\ LET input == last'.input
                 before == Find(state.userPlan[d], input.id)
                 after == Find(state'.userPlan[d], input.id)
             IN /\ \A f \in DOMAIN before \ {"updatedAt"} :
                     after[f] = IF f \in DOMAIN input THEN input[f] ELSE before[f]
                /\ after.updatedAt >= before.updatedAt]_vars

\* --- C6 ---------------------------------------------------------------
\* C6: the entity an add creates has an id that was not in the sequence before
\* the call, and createdAt equal to updatedAt.
C6_AddCreatesFreshEntity ==
  [][\A d \in Domains :
       (UserStep("add") /\ last'.domain = d)
       => LET seq == state'.userPlan[d]
              e == seq[Len(seq)]
          IN /\ Len(seq) = Len(state.userPlan[d]) + 1
             /\ e.id \notin Ids(state.userPlan[d])
             /\ e.createdAt = e.updatedAt]_vars

\* --- C7 ---------------------------------------------------------------
\* The provider mounted pristine, the auto-load returned no plan, and the
\* user has called nothing.
FreshMountLoadedNothing ==
  /\ hist.mountPristine
  /\ hist.autoLoad = "absent"
  /\ nOps = 0

\* C7: after a pristine mount whose load returns no plan, the plan is still
\* pristine, isLoading is false, and no save has been called or scheduled.
C7_FreshMountStaysPristine ==
  FreshMountLoadedNothing =>
    /\ IsPristine(state.userPlan)
    /\ ~state.loading.isLoading
    /\ hist.saveCalls = 0
    /\ timers = <<>>
    /\ tasks = <<>>

C7_Witness == FreshMountLoadedNothing /\ ~RenderPending /\ last.op = "render"

\* --- C8 ---------------------------------------------------------------
\* C8: the auto-load calls the storage load once if the plan is pristine at
\* mount, never otherwise, and never again.
C8_AutoLoadOnce ==
  hist.autoLoadCalls = IF mounted /\ hist.mountPristine THEN 1 ELSE 0

\* The plan was loaded from storage and later reset to pristine, and the
\* reset has been rendered.
C8_Witness ==
  /\ hist.autoLoad = "plan"
  /\ IsPristine(rendered.userPlan)
  /\ ~RenderPending
  /\ last.op = "render"

\* --- C9 ---------------------------------------------------------------
\* C9: when an entity operation completes its loading flag is false; if it
\* rejected its error category holds a message, if it resolved it is unset.
C9_EntityOpCleanup ==
  [][\A d \in Domains :
       (/\ nOps' = nOps + 1
        /\ last'.op \in EntityOps
        /\ last'.domain = d)
       => /\ ~state'.loading[LoadingKey(d)]
          /\ last'.outcome \in {"resolved", "rejected"}
          /\ last'.outcome = "rejected" => state'.error[ErrorKey(d)] # None
          /\ last'.outcome = "resolved" => state'.error[ErrorKey(d)] = None]_vars

\* An update was rejected and its message recorded.
C9_Witness ==
  /\ last.op = "update"
  /\ last.outcome = "rejected"
  /\ state.error[ErrorKey(last.domain)] = NotFoundMessage(last.domain)

\* --- C10 --------------------------------------------------------------
ManualSaveRejectStep ==
  /\ last'.op = "saveRejected"
  /\ last'.kind = "manualSave"
  /\ Len(tasks') = Len(tasks) - 1

\* C10: a manual save whose storage call rejects records a message in
\* generalError through save-error, re-raises, dispatches no set-saving(false)
\* and leaves hasUnsavedChanges as it was.
C10_ManualSaveFailure ==
  [][ManualSaveRejectStep =>
       /\ state'.error.generalError # None
       /\ last'.outcome = "rejected"
       /\ HasType(last'.acts, "saveError")
       /\ \A i \in 1..Len(last'.acts) :
            ~(last'.acts[i].type = "setSaving" /\ last'.acts[i].value = FALSE)
       /\ state'.hasUnsavedChanges = state.hasUnsavedChanges]_vars

\* A manual save of a plan with unsaved changes has just failed.
C10_Witness ==
  /\ last.op = "saveRejected"
  /\ last.kind = "manualSave"
  /\ state.hasUnsavedChanges
  /\ state.error.generalError = StorageFailure

\* --- C11 --------------------------------------------------------------
ManualSaveCallStep == UserStep("saveUserPlan") /\ Len(tasks') = Len(tasks) + 1

ManualSaveResolveStep ==
  /\ last'.op = "saveResolved"
  /\ last'.kind = "manualSave"
  /\ Len(tasks') = Len(tasks) - 1

\* C11: saveUserPlan hands to storage the plan that is in state when it is
\* called (so a mutation dispatched before the call is in it); when the save
\* succeeds, a returned plan whose id differs from the one in state replaces
\* the plan in state, and hasUnsavedChanges is cleared.
C11_ManualSaveSavesCurrentPlan ==
  [][/\ ManualSaveCallStep => tasks'[Len(tasks')].plan = state.userPlan
     /\ ManualSaveResolveStep =>
          /\ ~state'.hasUnsavedChanges
          /\ stored'.id # state.userPlan.id => state'.userPlan = stored']_vars

\* --- C12 --------------------------------------------------------------
AutoSaveRejectStep ==
  /\ last'.op = "saveRejected"
  /\ last'.kind = "autoSave"
  /\ Len(tasks') = Len(tasks) - 1

\* C12: an auto-save whose storage call rejects raises nothing, dispatches no
\* action and leaves the whole state as it was.
C12_AutoSaveFailureSwallowed ==
  [][AutoSaveRejectStep =>
       /\ last'.outcome = "swallowed"
       /\ last'.acts = <<>>
       /\ state' = state]_vars

\* An auto-save of a plan with unsaved changes has just failed.
C12_Witness ==
  /\ last.op = "saveRejected"
  /\ last.kind = "autoSave"
  /\ last.outcome = "swallowed"
  /\ state.hasUnsavedChanges
  /\ ~IsPristine(state.userPlan)

\* --- C13 --------------------------------------------------------------
LoadRejectStep == last'.op = "loadRejected" /\ Len(tasks') = Len(tasks) - 1
LoadResolveStep == last'.op = "loadResolved" /\ Len(tasks') = Len(tasks) - 1

\* C13: a load that rejects dispatches load-error with the message, raising
\* nothing on the auto-load path and re-raising on the manual path; a load
\* that returns a plan replaces the plan in state by it, and one that returns
\* none clears the loading flag and changes nothing else.
C13_LoadOutcomes ==
  [][/\ LoadRejectStep =>
          /\ \E i \in 1..Len(last'.acts) : last'.acts[i] = loadError(StorageFailure)
          /\ last'.kind = "autoLoad" => last'.outcome = "swallowed"
          /\ last'.kind = "manualLoad" => last'.outcome = "rejected"
     /\ (LoadResolveStep /\ stored # NoPlan) => state'.userPlan = stored
     /\ (LoadResolveStep /\ stored = NoPlan) =>
          state' = [state EXCEPT !.loading.isLoading = FALSE]]_vars

\* A manual load has just failed on a plan that the auto-load had brought.
C13_Witness ==
  /\ last.op = "loadRejected"
  /\ last.kind = "manualLoad"
  /\ last.outcome = "rejected"
  /\ hist.autoLoad = "plan"
  /\ state.error.generalError = StorageFailure

\* --- C14 --------------------------------------------------------------
DeleteStep(d) == UserStep("delete") /\ last'.domain = d

\* C14: a delete resolves; if the id is not in the sequence the sequence is
\* unchanged; after it the id is not in the sequence and a second delete of
\* the same id leaves the sequence as the first left it; the domain loading
\* flag is false and the domain error unset.
C14_DeleteIdempotent ==
  [][\A d \in Domains :
       DeleteStep(d) =>
         LET id == last'.input.id
             again == Dispatch(state', DeleteActions(d, id))
         IN /\ last'.outcome = "resolved"
            /\ id \notin Ids(state.userPlan[d]) => state'.userPlan[d] = state.userPlan[d]
            /\ id \notin Ids(state'.userPlan[d])
            /\ again.userPlan[d] = state'.userPlan[d]
            /\ ~again.loading[LoadingKey(d)] /\ again.error[ErrorKey(d)] = None
            /\ ~state'.loading[LoadingKey(d)]
            /\ state'.error[ErrorKey(d)] = None]_vars

\* An id that is not in a non-empty sequence was deleted from it.
C14_Witness ==
  \E d \in Domains :
    /\ last.op = "delete"
    /\ last.domain = d
    /\ last.outcome = "resolved"
    /\ last.input.id \notin Ids(rendered.userPlan[d])
    /\ Len(rendered.userPlan[d]) >= 1
    /\ state.userPlan[d] = rendered.userPlan[d]

\* --- C15 --------------------------------------------------------------
AutoSaveResolveStep ==
  /\ last'.op = "saveResolved"
  /\ last'.kind = "autoSave"
  /\ Len(tasks') = Len(tasks) - 1

\* C15: when an auto-save succeeds and storage returned a plan whose id
\* differs from the one in state, everything in the plan but its id is as it
\* was in state at completion, entities added or changed meanwhile included.
C15_AutoSaveChangesOnlyId ==
  [][(AutoSaveResolveStep /\ stored'.id # state.userPlan.id) =>
       \A f \in DOMAIN state.userPlan \ {"id"} :
         state'.userPlan[f] = state.userPlan[f]]_vars

\* --- C16 --------------------------------------------------------------
SaveInFlight == \E i \in 1..Len(tasks) : IsSave(tasks[i])

\* C16: whenever hasUnsavedChanges is false, a save has succeeded and no save
\* is in flight, the plan last written to storage is the plan in state (a
\* mutation made while a save is in flight is not marked saved by it). The
\* states a resetAll leaves, which clears the flag without a save, are left
\* out of the statement.
C16_SavedMeansStored ==
  (/\ ~state.hasUnsavedChanges
   /\ hist.saved
   /\ ~SaveInFlight
   /\ ~hist.reset)
  => stored = state.userPlan

\* --- C17 --------------------------------------------------------------
UnsavedRealData ==
  /\ mounted
  /\ state.hasUnsavedChanges
  /\ ~IsPristine(state.userPlan)

\* Storage has been called to save the plan that is in state.
SaveOfCurrentPlanAttempted ==
  \E i \in 1..Len(tasks) :
    /\ IsSave(tasks[i])
    /\ tasks[i].stage = "storage"
    /\ tasks[i].plan = state.userPlan

\* C17: from any state with unsaved changes on a non-pristine plan, whatever
\* came before, a save of the plan in state is eventually attempted (unless
\* the changes are meanwhile saved or the plan reset).
C17_UnsavedEventuallySaved ==
  UnsavedRealData ~>
    (SaveOfCurrentPlanAttempted \/ ~state.hasUnsavedChanges \/ IsPristine(state.userPlan))

\* --- C18 --------------------------------------------------------------
SavesInFlight == {i \in 1..Len(tasks) : IsSave(tasks[i]) /\ tasks[i].stage = "storage"}

\* C18: at most one storage save call is in flight at any time, auto-saves
\* and manual saves together.
C18_OneSaveInFlight == Cardinality(SavesInFlight) <= 1

\* --- C19 --------------------------------------------------------------
\* C19: an entity an add has created is in its sequence as long as no delete
\* of its id, no resetAll and no loadUserPlan has been called.
C19_AddedEntityStays ==
  \A e \in hist.added : e[2] \in Ids(state.userPlan[e[1]])

\* --- C20 --------------------------------------------------------------
\* C20: after resetAll the plan is pristine as long as no mutation and no
\* loadUserPlan has been called.
C20_ResetStaysPristine == hist.reset => IsPristine(state.userPlan)

====
